---- MODULE Spec2Model ----
(***************************************************************************)
(* Word-cloud generator (src/app.py): the frequency-list parser, the       *)
(* raw-text tokenizer, the normalizer, the filter/scale/cap stage and the   *)
(* module-level generate flow that chains them and calls the renderer.     *)
(*                                                                         *)
(* Text is a sequence of characters, each character a one-character string *)
(* (a few characters that have no ASCII spelling are named, see Lower).    *)
(* A float is modelled as an exact rational <<n, d>> in lowest terms with   *)
(* d > 0, or inf <<1, 0>>, -inf <<-1, 0>>, nan <<0, 0>>; rounding and       *)
(* overflow are outside the model.                                         *)
(* A dict is a sequence of entries [k |-> key, v |-> value] with distinct   *)
(* keys, in insertion order, as Python keeps it.                           *)
(***************************************************************************)
EXTENDS Integers, Sequences, FiniteSets, TLC

VARIABLES
    pc,               \* where the running function or script is
    text,             \* the text handed to the entry point
    lines,            \* parse_frequency_input: the lines not yet iterated
    line,             \* parse_frequency_input: the line of the last iteration
    outcome,          \* parse_frequency_input: what the last iteration did
    frequencies,      \* the dict being built / the current weight map
    raised,           \* the exception that propagated out, or "none"
    arg,              \* the dict the last normalize/apply call was given
    filtered,         \* apply_filters: its local dict after the threshold
    min_frequency,    \* settings: minimum frequency
    scale,            \* settings: scale factor
    max_words,        \* settings: maximum number of words
    stop_words,       \* process_raw_text: the stop-word set
    words,            \* process_raw_text: the tokens re.findall returned
    freq_input_data,  \* script: the frequency text area
    text_input_data,  \* script: the raw-text text area
    generate_btn,     \* script: whether this run was started by the button
    input_mode,       \* script: the module-level variable input_mode
    total_words,      \* script: the word total shown in the statistics
    img_buffer,       \* script: what generate_wordcloud_image returned
    rendered,         \* script: the maps the renderer was called with
    error,            \* script: whether st.error was shown in this run
    session_state     \* st.session_state: the saved last result

parseVars == <<text, lines, line, outcome, raised>>
filterVars == <<arg, filtered, min_frequency, scale, max_words>>
textVars == <<stop_words, words>>
widgetVars == <<freq_input_data, text_input_data, generate_btn>>
flowVars == <<widgetVars, input_mode, total_words, img_buffer, rendered,
              error, session_state>>

vars == <<pc, frequencies, parseVars, filterVars, textVars, flowVars>>

-----------------------------------------------------------------------------
(* Bounds of the model *)

MaxTextLen == 5

-----------------------------------------------------------------------------
(* Characters *)

Digit == {"0", "1", "2", "3", "4", "5", "6", "7", "8", "9"}

DigitVal(c) ==
    CASE c = "0" -> 0 [] c = "1" -> 1 [] c = "2" -> 2 [] c = "3" -> 3
      [] c = "4" -> 4 [] c = "5" -> 5 [] c = "6" -> 6 [] c = "7" -> 7
      [] c = "8" -> 8 [] c = "9" -> 9

\* What \s matches and what str.strip() removes, among the characters used.
Space == {" ", "\t", "\n"}

Sign == {"-", "+"}

\* The characters the frequency text area is filled with in the model.
FreqAlphabet == {"a", " ", "\t", ":", "0", "1", ".", "%", "/", "-", "\n"}

SeqsUpTo(S, n) == UNION {[1..k -> S] : k \in 0..n}

SetMin(S) == CHOOSE x \in S : \A y \in S : x <= y
SetMax(S) == CHOOSE x \in S : \A y \in S : x >= y

-----------------------------------------------------------------------------
(* str methods *)

\* s.strip()
strip(s) ==
    LET idx == {i \in 1..Len(s) : s[i] \notin Space}
    IN  IF idx = {} THEN <<>> ELSE SubSeq(s, SetMin(idx), SetMax(idx))

\* c in s
contains(s, c) == \E i \in 1..Len(s) : s[i] = c

\* s.find(c), 1-based; only used when c is in s
find(s, c) == SetMin({i \in 1..Len(s) : s[i] = c})

\* s.split(sep): every occurrence of the one-character separator splits
RECURSIVE split(_, _)
split(s, sep) ==
    IF ~contains(s, sep) THEN <<s>>
    ELSE LET i == find(s, sep)
         IN  <<SubSeq(s, 1, i - 1)>> \o split(SubSeq(s, i + 1, Len(s)), sep)

\* s.split(sep, 1)
split1(s, sep) ==
    IF ~contains(s, sep) THEN <<s>>
    ELSE LET i == find(s, sep)
         IN  <<SubSeq(s, 1, i - 1), SubSeq(s, i + 1, Len(s))>>

\* s.replace(c, '')
RECURSIVE remove(_, _)
remove(s, c) ==
    IF s = <<>> THEN <<>>
    ELSE IF Head(s) = c THEN remove(Tail(s), c)
    ELSE <<Head(s)>> \o remove(Tail(s), c)

\* re.split(r'\s+', s, 1): split at the first run of whitespace
re_split_space1(s) ==
    LET ws == {i \in 1..Len(s) : s[i] \in Space}
    IN  IF ws = {} THEN <<s>>
        ELSE LET i == SetMin(ws)
                 j == SetMax({m \in i..Len(s) :
                                \A n \in i..m : s[n] \in Space})
             IN  <<SubSeq(s, 1, i - 1), SubSeq(s, j + 1, Len(s))>>

-----------------------------------------------------------------------------
(* Rationals standing for floats *)

RECURSIVE GCD(_, _)
GCD(a, b) == IF b = 0 THEN a ELSE GCD(b, a % b)

Abs(x) == IF x < 0 THEN -x ELSE x

Sgn(x) == IF x > 0 THEN 1 ELSE IF x < 0 THEN -1 ELSE 0

\* n/d in lowest terms; n/0 is an infinity, 0/0 is nan
Rat(n, d) ==
    IF d = 0 THEN <<Sgn(n), 0>>
    ELSE LET g == GCD(Abs(n), Abs(d))
             s == IF d < 0 THEN -1 ELSE 1
         IN  <<(s * n) \div g, (s * d) \div g>>

Zero == Rat(0, 1)
One == Rat(1, 1)
NaN == <<0, 0>>

\* a > b, a >= b, a < b: False when either is nan
RGt(a, b) ==
    /\ a # NaN /\ b # NaN
    /\ IF a[2] = 0 /\ b[2] = 0 THEN a[1] > b[1]
       ELSE a[1] * b[2] > b[1] * a[2]
RGe(a, b) ==
    /\ a # NaN /\ b # NaN
    /\ IF a[2] = 0 /\ b[2] = 0 THEN a[1] >= b[1]
       ELSE a[1] * b[2] >= b[1] * a[2]
RLt(a, b) == RGt(b, a)
\* a * b
RMul(a, b) == Rat(a[1] * b[1], a[2] * b[2])
\* a / b for b # 0 (Python raises ZeroDivisionError on b = 0)
RDiv(a, b) == Rat(a[1] * b[2] * Sgn(b[1]), a[2] * Abs(b[1]))

RECURSIVE Pow10(_)
Pow10(n) == IF n = 0 THEN 1 ELSE 10 * Pow10(n - 1)

RECURSIVE IntOf(_)
IntOf(ds) ==
    IF ds = <<>> THEN 0
    ELSE 10 * IntOf(SubSeq(ds, 1, Len(ds) - 1)) + DigitVal(ds[Len(ds)])

IsDigits(s) == \A i \in 1..Len(s) : s[i] \in Digit

-----------------------------------------------------------------------------
(* float(s), as far as the characters used reach: optional surrounding      *)
(* whitespace, an optional sign, then either digits with at most one '.',   *)
(* at least one digit in all ('1', '1.', '.1', '1.1'), or one of the words  *)
(* 'inf' and 'nan'.  Anything else: ValueError.  (Exponents, underscores,   *)
(* 'infinity' and upper case need characters the model does not use.)       *)

FloatBody(t) == IF t # <<>> /\ t[1] \in Sign THEN Tail(t) ELSE t

FloatOk(s) ==
    LET b == FloatBody(strip(s))
    IN  \/ /\ \A i \in 1..Len(b) : b[i] \in Digit \cup {"."}
           /\ Cardinality({i \in 1..Len(b) : b[i] = "."}) <= 1
           /\ \E i \in 1..Len(b) : b[i] \in Digit
        \/ b \in {<<"i", "n", "f">>, <<"n", "a", "n">>}

FloatVal(s) ==
    LET t == strip(s)
        b == FloatBody(t)
        sg == IF t[1] = "-" THEN -1 ELSE 1
    IN  IF b = <<"i", "n", "f">> THEN <<sg, 0>>
        ELSE IF b = <<"n", "a", "n">> THEN NaN
        ELSE IF contains(b, ".")
        THEN LET i == find(b, ".")
                 ip == SubSeq(b, 1, i - 1)
                 fp == SubSeq(b, i + 1, Len(b))
             IN  Rat(sg * (IntOf(ip) * Pow10(Len(fp)) + IntOf(fp)),
                     Pow10(Len(fp)))
        ELSE Rat(sg * IntOf(b), 1)

-----------------------------------------------------------------------------
(* re.search(r'(.+?)\s+([-+]?\d*\.?\d+\s*%?)$', line)                      *)

\* \d*\.?\d+ matches the whole of s
NumCore(s) ==
    \E j \in 0..Len(s) :
        /\ IsDigits(SubSeq(s, 1, j))
        /\ LET r == SubSeq(s, j + 1, Len(s))
           IN  \/ Len(r) >= 1 /\ IsDigits(r)
               \/ Len(r) >= 2 /\ r[1] = "." /\ IsDigits(Tail(r))

\* [-+]?\d*\.?\d+\s*%? matches the whole of s
NumToken(s) ==
    \E a \in 0..1, p \in 0..1 :
        /\ a + p <= Len(s)
        /\ a = 1 => s[1] \in Sign
        /\ p = 1 => s[Len(s)] = "%"
        /\ \E e \in a..(Len(s) - p) :
              /\ NumCore(SubSeq(s, a + 1, e))
              /\ \A i \in (e + 1)..(Len(s) - p) : s[i] \in Space

\* The lengths w of a leading whitespace run of s after which the rest of s
\* is a numeric token: \s+(...)$ matches the whole of s.
TailSplits(s) ==
    {w \in 1..Len(s) : /\ \A i \in 1..w : s[i] \in Space
                       /\ NumToken(SubSeq(s, w + 1, Len(s)))}

\* The candidates <<start, length of group 1>> of a match in s; '.' matches
\* any character but a newline.
Matches(s) ==
    LET tails == {t \in 2..Len(s) : TailSplits(SubSeq(s, t, Len(s))) # {}}
    IN  {m \in (1..Len(s)) \X (1..Len(s)) :
            /\ m[1] + m[2] \in tails
            /\ \A i \in m[1]..(m[1] + m[2] - 1) : s[i] # "\n"}

\* The leftmost start, and from it the shortest group 1 (.+? is lazy)
leftmost_lazy(ms) ==
    LET st == SetMin({m[1] : m \in ms})
    IN  <<st, SetMin({m[2] : m \in {x \in ms : x[1] = st}})>>

\* The groups of the match whose group 1 is g1 and whose rest is tl: \s+
\* takes the longest run it can.
groups(g1, tl) ==
    [matched |-> TRUE, group1 |-> g1,
     group2 |-> SubSeq(tl, SetMax(TailSplits(tl)) + 1, Len(tl))]

\* The match object of the candidate m
match_at(s, m) ==
    groups(SubSeq(s, m[1], m[1] + m[2] - 1), SubSeq(s, m[1] + m[2], Len(s)))

\* The match among the candidates ms, if there is one
match_of(s, ms) ==
    IF ms = {} THEN [matched |-> FALSE] ELSE match_at(s, leftmost_lazy(ms))

re_search(s) == match_of(s, Matches(s))

-----------------------------------------------------------------------------
(* parse_frequency_input: one iteration of the loop over the lines          *)

\* The fallback split when the pattern does not match
parts(ln) ==
    IF contains(ln, "\t") THEN split1(ln, "\t")
    ELSE IF contains(ln, ":") THEN split1(ln, ":")
    ELSE re_split_space1(ln)

\* A variant that consults the fallback parts before the match
fallback_first(m, ps) ==
    IF Len(ps) = 2
    THEN [found |-> TRUE, word |-> strip(ps[1]), freq_str |-> strip(ps[2])]
    ELSE IF m.matched
    THEN [found |-> TRUE, word |-> strip(m.group1),
          freq_str |-> strip(m.group2)]
    ELSE [found |-> FALSE]

\* word and freq_str from the match m, or else from the fallback parts ps;
\* found = FALSE: continue
match_or_parts(m, ps) ==
    IF ~m.matched
    THEN IF Len(ps) = 2
         THEN [found |-> TRUE, word |-> strip(ps[1]),
               freq_str |-> strip(ps[2])]
         ELSE [found |-> FALSE]
    ELSE [found |-> TRUE, word |-> strip(m.group1),
          freq_str |-> strip(m.group2)]

\* word and freq_str of a stripped, non-empty line
extract(ln) == match_or_parts(re_search(ln), parts(ln))

\* A variant that also divides a percentage of exactly 1
percent_ge(freq) == IF RGe(freq, One) THEN RDiv(freq, Rat(100, 1)) ELSE freq

\* if freq > 1: freq = freq / 100.0
percent(freq) == IF RGt(freq, One) THEN RDiv(freq, Rat(100, 1)) ELSE freq

\* The try block up to the test freq > 0: the number, or the exception
convert(freq_str) ==
    IF contains(freq_str, "%")
    THEN LET s2 == strip(remove(freq_str, "%"))
         IN  IF ~FloatOk(s2) THEN [exc |-> "ValueError"]
             ELSE [exc |-> "none", freq |-> percent(FloatVal(s2))]
    ELSE IF contains(freq_str, "/")
    THEN LET ps == split(freq_str, "/")
         IN  \* num, denom = map(float, ...): a part that is no float, or a
             \* third part, is a ValueError
             IF ~FloatOk(ps[1]) \/ ~FloatOk(ps[2]) \/ Len(ps) > 2
             THEN [exc |-> "ValueError"]
             ELSE IF FloatVal(ps[2]) = Zero
                  THEN [exc |-> "ZeroDivisionError"]
                  ELSE [exc |-> "none",
                        freq |-> RDiv(FloatVal(ps[1]), FloatVal(ps[2]))]
    ELSE IF ~FloatOk(freq_str) THEN [exc |-> "ValueError"]
         ELSE [exc |-> "none", freq |-> FloatVal(freq_str)]

\* frequencies[word] = freq
DictSet(d, k, v) ==
    IF \E i \in 1..Len(d) : d[i].k = k
    THEN [i \in 1..Len(d) |-> IF d[i].k = k THEN [k |-> k, v |-> v] ELSE d[i]]
    ELSE Append(d, [k |-> k, v |-> v])

Get(d, k) == d[CHOOSE i \in 1..Len(d) : d[i].k = k].v

\* A variant that also stores a weight of zero
store_ge(x, c) ==
    IF c.exc = "ValueError"
    THEN [kind |-> "ValueError", word |-> x.word, freq_str |-> x.freq_str]
    ELSE IF c.exc # "none"
    THEN [kind |-> "raise", exc |-> c.exc,
          word |-> x.word, freq_str |-> x.freq_str]
    ELSE IF RGe(c.freq, Zero)
    THEN [kind |-> "stored", word |-> x.word,
          freq_str |-> x.freq_str, freq |-> c.freq]
    ELSE [kind |-> "nonpositive", word |-> x.word,
          freq_str |-> x.freq_str, freq |-> c.freq]

\* if freq > 0: frequencies[word] = freq, for the result c of the try block
store(x, c) ==
    IF c.exc = "ValueError"
    THEN [kind |-> "ValueError", word |-> x.word, freq_str |-> x.freq_str]
    ELSE IF c.exc # "none"
    THEN [kind |-> "raise", exc |-> c.exc,
          word |-> x.word, freq_str |-> x.freq_str]
    ELSE IF RGt(c.freq, Zero)
    THEN [kind |-> "stored", word |-> x.word,
          freq_str |-> x.freq_str, freq |-> c.freq]
    ELSE [kind |-> "nonpositive", word |-> x.word,
          freq_str |-> x.freq_str, freq |-> c.freq]

\* The try block, entered when a word and a weight string were found
try_block(x) ==
    IF ~x.found THEN [kind |-> "unrecognized"]
    ELSE store(x, convert(x.freq_str))

\* What one iteration does with the raw line l0
iteration(l0) ==
    IF strip(l0) = <<>> THEN [kind |-> "blank"]
    ELSE try_block(extract(strip(l0)))

-----------------------------------------------------------------------------
(* parse_frequency_input as a process: the call, the loop, the return       *)

NoOutcome == [kind |-> "none"]

\* The values of the variables a specification does not use
ParseIdle ==
    /\ text = <<>> /\ lines = <<>> /\ line = <<>>
    /\ outcome = NoOutcome /\ raised = "none"

FilterIdle ==
    /\ arg = <<>> /\ filtered = <<>>
    /\ min_frequency = Zero /\ scale = One /\ max_words = 0

TextIdle == stop_words = {} /\ words = <<>>

\* st.session_state before anything was saved
NoSession == [saved |-> FALSE]

FlowIdle ==
    /\ freq_input_data = <<>> /\ text_input_data = <<>>
    /\ generate_btn = FALSE /\ input_mode = "unset" /\ total_words = 0
    /\ img_buffer = "unset" /\ rendered = {} /\ error = FALSE
    /\ session_state = NoSession

FreqTexts == SeqsUpTo(FreqAlphabet, MaxTextLen)

InitParse ==
    /\ pc = "call"
    /\ text \in FreqTexts
    /\ lines = <<>>
    /\ line = <<>>
    /\ outcome = NoOutcome
    /\ frequencies = <<>>
    /\ raised = "none"
    /\ FilterIdle
    /\ TextIdle
    /\ FlowIdle

\* frequencies = {}; lines = text.strip().split('\n')
ParseStart ==
    /\ pc = "call"
    /\ lines' = split(strip(text), "\n")
    /\ frequencies' = <<>>
    /\ pc' = "loop"
    /\ UNCHANGED <<text, line, outcome, raised, filterVars, textVars, flowVars>>

\* for line in lines: ...
ParseLine ==
    /\ pc = "loop"
    /\ lines # <<>>
    /\ line' = Head(lines)
    /\ outcome' = iteration(Head(lines))
    /\ lines' = Tail(lines)
    /\ frequencies' = IF outcome'.kind = "stored"
                      THEN DictSet(frequencies, outcome'.word, outcome'.freq)
                      ELSE frequencies
    /\ pc' = IF outcome'.kind = "raise" THEN "raised" ELSE "loop"
    /\ raised' = IF outcome'.kind = "raise" THEN outcome'.exc ELSE raised
    /\ UNCHANGED <<text, filterVars, textVars, flowVars>>

\* return frequencies
ParseReturn ==
    /\ pc = "loop"
    /\ lines = <<>>
    /\ pc' = "done"
    /\ UNCHANGED <<frequencies, parseVars, filterVars, textVars, flowVars>>

NextParse == ParseStart \/ ParseLine \/ ParseReturn

SpecParse == InitParse /\ [][NextParse]_vars

-----------------------------------------------------------------------------
(* Properties of parse_frequency_input (SpecParse)                          *)

\* The last iteration got as far as a word and a weight string
Extracted == outcome.kind \in {"ValueError", "raise", "stored", "nonpositive"}

\* C1: parse_frequency_input never raises: a line whose weight string cannot
\* be turned into a number (no number, a malformed ratio, a ratio whose
\* denominator is zero) is skipped and the loop goes on to the other lines.
C1_NeverRaises ==
    /\ raised = "none"
    /\ outcome.kind \in {"ValueError", "raise"} => pc \in {"loop", "done"}

\* C2: every key of the map parse_frequency_input builds is a non-empty
\* string: a line whose term part is empty (such as ':5') adds no entry.
C2_KeysNonEmpty ==
    \A i \in 1..Len(frequencies) : frequencies[i].k # <<>>

\* C4: for a weight string containing '%' from which, the '%' removed, a
\* number v is read, the stored weight is v/100 when v > 1 and v itself when
\* 0 < v <= 1.
C4_Percent ==
    (Extracted /\ contains(outcome.freq_str, "%")
        /\ FloatOk(strip(remove(outcome.freq_str, "%")))) =>
        LET v == FloatVal(strip(remove(outcome.freq_str, "%")))
        IN  /\ RGt(v, One) =>
                  /\ outcome.kind = "stored"
                  /\ outcome.freq[1] * v[2] * 100 = v[1] * outcome.freq[2]
                  /\ Get(frequencies, outcome.word) = outcome.freq
            /\ (RGt(v, Zero) /\ ~RGt(v, One)) =>
                  /\ outcome.kind = "stored"
                  /\ outcome.freq = v
                  /\ Get(frequencies, outcome.word) = v

\* A percentage above 1 was read and stored divided by 100.
C4_Witness ==
    /\ Extracted /\ outcome.kind = "stored"
    /\ contains(outcome.freq_str, "%")
    /\ RGt(FloatVal(strip(remove(outcome.freq_str, "%"))), One)
    /\ RLt(outcome.freq, One)
    /\ Get(frequencies, outcome.word) = outcome.freq

\* The numeric token of the claim: an optional sign, digits with an optional
\* decimal point before the last digits, an optional '%'; no whitespace.
PlainNumber(t) ==
    LET a == IF t # <<>> /\ t[1] \in Sign THEN 1 ELSE 0
        z == IF t # <<>> /\ t[Len(t)] = "%" THEN 1 ELSE 0
        b == SubSeq(t, a + 1, Len(t) - z)
    IN  /\ Len(t) - a - z >= 1
        /\ b[Len(b)] \in Digit
        /\ \A i \in 1..Len(b) : b[i] \in Digit \cup {"."}
        /\ Cardinality({i \in 1..Len(b) : b[i] = "."}) <= 1

\* The positions p of the stripped line ln holding whitespace that is followed
\* by a numeric token reaching to the end of the line
NumberAt(ln) ==
    {p \in 1..Len(ln) : ln[p] \in Space /\ PlainNumber(SubSeq(ln, p + 1, Len(ln)))}

\* C5: for every line that ends with whitespace followed by a numeric token,
\* that final token is the weight string and all the text before it, trimmed,
\* is the term, whatever numbers, tabs or colons the text before it holds (the
\* fallback separators are not consulted).
C5_LastNumberIsWeight ==
    (pc \in {"loop", "raised"} /\ outcome.kind # "none") =>
        \A p \in NumberAt(strip(line)) :
            /\ Extracted
            /\ outcome.freq_str = SubSeq(strip(line), p + 1, Len(strip(line)))
            /\ outcome.word = strip(SubSeq(strip(line), 1, p - 1))

\* A line of this form whose leading text holds a colon, so that the colon
\* fallback would have split it elsewhere.
C5_Witness ==
    /\ pc = "loop" /\ outcome.kind = "stored"
    /\ NumberAt(strip(line)) # {}
    /\ contains(outcome.word, ":")
    /\ outcome.word[1] = "a"

\* C12: every value of the map parse_frequency_input builds is strictly
\* greater than zero: an iteration whose line parses to a weight that is zero
\* or negative leaves the map as it was, the entries of the earlier lines
\* neither overwritten nor removed.
C12_ValuesPositive ==
    /\ [](\A i \in 1..Len(frequencies) : RGt(frequencies[i].v, Zero))
    /\ [][(/\ pc = "loop" /\ lines # <<>> /\ lines' = Tail(lines)
           /\ outcome'.kind \in {"stored", "nonpositive"}
           /\ ~RGt(outcome'.freq, Zero))
             => frequencies' = frequencies]_vars

\* A line with the weight zero was read for a word that an earlier line had
\* stored, and the entry is still there.
C12_Witness ==
    /\ outcome.kind = "nonpositive"
    /\ outcome.freq = Zero
    /\ \E i \in 1..Len(frequencies) : frequencies[i].k = outcome.word

-----------------------------------------------------------------------------
(* normalize_frequencies and apply_filters                                  *)

MaxEntries == 3

Values(d) == {d[i].v : i \in 1..Len(d)}

\* max(frequencies.values()), d not empty: the first value, replaced by
\* each later value that compares greater
RECURSIVE MaxValue(_)
MaxValue(d) ==
    IF Len(d) = 1 THEN d[1].v
    ELSE LET m == MaxValue(SubSeq(d, 1, Len(d) - 1))
         IN  IF RGt(d[Len(d)].v, m) THEN d[Len(d)].v ELSE m

\* A variant that divides by the maximum whatever the maximum is
normalize_always(d) ==
    IF d = <<>> THEN d
    ELSE [i \in 1..Len(d) |->
             [k |-> d[i].k, v |-> RDiv(d[i].v, MaxValue(d))]]

normalize_frequencies(d) ==
    IF d = <<>> THEN d
    ELSE IF RGt(MaxValue(d), One)
         THEN [i \in 1..Len(d) |->
                  [k |-> d[i].k, v |-> RDiv(d[i].v, MaxValue(d))]]
         ELSE d

\* A variant that drops an entry equal to the threshold
filter_min_strict(d, min_freq) ==
    SelectSeq(d, LAMBDA e : RGt(e.v, min_freq))

\* {k: v for k, v in frequencies.items() if v >= min_freq}
filter_min(d, min_freq) ==
    SelectSeq(d, LAMBDA e : RGe(e.v, min_freq))

\* {k: v * scale for k, v in filtered.items()}
scale_values(d, sc) ==
    [i \in 1..Len(d) |-> [k |-> d[i].k, v |-> RMul(d[i].v, sc)]]

\* A variant that sorts by ascending value
insert_asc(t, x) ==
    LET n == Cardinality({i \in 1..Len(t) : RGe(x.v, t[i].v)})
    IN  SubSeq(t, 1, n) \o <<x>> \o SubSeq(t, n + 1, Len(t))

\* x put into t, sorted by descending value, behind the entries not below it
insert_desc(t, x) ==
    LET n == Cardinality({i \in 1..Len(t) : RGe(t[i].v, x.v)})
    IN  SubSeq(t, 1, n) \o <<x>> \o SubSeq(t, n + 1, Len(t))

\* sorted(scaled.items(), key=lambda x: x[1], reverse=True): stable, so
\* entries of equal value keep the order they had in the dict
RECURSIVE sorted_desc(_)
sorted_desc(d) ==
    IF d = <<>> THEN <<>>
    ELSE insert_desc(sorted_desc(SubSeq(d, 1, Len(d) - 1)), d[Len(d)])

\* s[:n]
slice_to(s, n) ==
    IF n >= Len(s) THEN s
    ELSE IF n >= 0 THEN SubSeq(s, 1, n)
    ELSE IF Len(s) + n > 0 THEN SubSeq(s, 1, Len(s) + n)
    ELSE <<>>

\* if len(scaled) > max_words: scaled = dict(sorted_items[:max_words])
cap(d, mw) ==
    IF Len(d) > mw THEN slice_to(sorted_desc(d), mw) ELSE d

apply_filters(d, min_freq, sc, mw) ==
    LET f == filter_min(d, min_freq)
    IN  IF f = <<>> THEN <<>> ELSE cap(scale_values(f, sc), mw)

-----------------------------------------------------------------------------
(* The two functions applied to weight maps of up to MaxEntries entries     *)

KeyOf == <<"a", "b", "c", "d", "e">>

WeightValues == {Rat(1, 4), Rat(1, 2), One, Rat(2, 1), Rat(4, 1)}
MinFreqs == {Zero, Rat(1, 2), Rat(2, 1)}
Scales == {Rat(1, 2), One, Rat(2, 1)}

InputMaps ==
    UNION {{[i \in 1..n |-> [k |-> <<KeyOf[i]>>, v |-> vs[i]]] :
               vs \in [1..n -> WeightValues]} : n \in 0..MaxEntries}

InitFilter ==
    /\ pc = "input"
    /\ frequencies \in InputMaps
    /\ min_frequency \in MinFreqs
    /\ scale \in Scales
    /\ max_words \in 0..MaxEntries
    /\ arg = <<>>
    /\ filtered = <<>>
    /\ ParseIdle
    /\ TextIdle
    /\ FlowIdle

\* frequencies = normalize_frequencies(frequencies), on the input (a given
\* map, or the map parse_frequency_input returned) and once more on its own
\* result
Normalize ==
    /\ pc \in {"input", "done", "normalized"}
    /\ arg' = frequencies
    /\ frequencies' = normalize_frequencies(frequencies)
    /\ pc' = IF pc = "normalized" THEN "renormalized" ELSE "normalized"
    /\ UNCHANGED <<filtered, min_frequency, scale, max_words, parseVars, textVars, flowVars>>

\* frequencies = apply_filters(frequencies, min_frequency, scale, max_words),
\* on the input or, as the generate flow does, on the normalized map
Apply ==
    /\ pc \in {"input", "normalized"}
    /\ arg' = frequencies
    /\ filtered' = filter_min(frequencies, min_frequency)
    /\ frequencies' = apply_filters(frequencies, min_frequency, scale, max_words)
    /\ pc' = IF pc = "input" THEN "applied" ELSE "pipeline"
    /\ UNCHANGED <<min_frequency, scale, max_words, parseVars, textVars, flowVars>>

NextFilter == Normalize \/ Apply

SpecFilter == InitFilter /\ [][NextFilter]_vars

-----------------------------------------------------------------------------
(* Properties of apply_filters and normalize_frequencies (SpecFilter)       *)

Called(p) == pc \in p
HasKey(d, k) == \E i \in 1..Len(d) : d[i].k = k

\* The entries of the dict apply_filters was given that reach the threshold
Survivors == {i \in 1..Len(arg) : RGe(arg[i].v, min_frequency)}

\* C6: apply_filters keeps an entry at the threshold step exactly when its
\* input (pre-scaling) value is >= min_freq, a value equal to min_freq being
\* kept; if no entry is kept it returns an empty map; otherwise every value in
\* the result is the input value of its key multiplied by scale, and the
\* result holds every kept entry unless the cap on the word count drops some.
C6_ThresholdThenScale ==
    Called({"applied", "pipeline"}) =>
        /\ \A i \in 1..Len(arg) :
              HasKey(filtered, arg[i].k) <=> i \in Survivors
        /\ \A j \in 1..Len(filtered) :
              \E i \in Survivors : filtered[j] = arg[i]
        /\ Survivors = {} => frequencies = <<>>
        /\ \A j \in 1..Len(frequencies) :
              \E i \in Survivors :
                 /\ frequencies[j].k = arg[i].k
                 /\ frequencies[j].v[1] * arg[i].v[2] * scale[2]
                       = arg[i].v[1] * scale[1] * frequencies[j].v[2]
        /\ Cardinality(Survivors) <= max_words =>
              \A i \in Survivors : HasKey(frequencies, arg[i].k)

\* An entry exactly at the threshold is kept and scaled while another one,
\* below the threshold, is dropped.
C6_Witness ==
    /\ Called({"applied", "pipeline"})
    /\ scale # One
    /\ \E i, j \in 1..Len(arg) :
          /\ arg[i].v = min_frequency
          /\ HasKey(frequencies, arg[i].k)
          /\ RLt(arg[j].v, min_frequency)
          /\ ~HasKey(frequencies, arg[j].k)

\* C7: for max_words > 0 and scale > 0 the result of apply_filters has
\* min(number of entries surviving the threshold, max_words) entries, and every
\* retained entry's value is >= the value of every survivor the cap dropped.
C7_CapKeepsTop ==
    (Called({"applied", "pipeline"}) /\ max_words > 0 /\ RGt(scale, Zero)) =>
        /\ Len(frequencies) = IF Cardinality(Survivors) < max_words
                              THEN Cardinality(Survivors) ELSE max_words
        /\ \A i, j \in Survivors :
              (HasKey(frequencies, arg[i].k) /\ ~HasKey(frequencies, arg[j].k))
                 => RGe(arg[i].v, arg[j].v)

\* The cap drops a survivor of strictly smaller value than one it keeps, and
\* the dropped one came earlier in the dict.
C7_Witness ==
    /\ Called({"applied", "pipeline"})
    /\ max_words > 0
    /\ \E i, j \in Survivors :
          /\ j < i
          /\ HasKey(frequencies, arg[i].k)
          /\ ~HasKey(frequencies, arg[j].k)
          /\ RGt(arg[i].v, arg[j].v)

\* C8: normalize_frequencies returns the map unchanged when it is empty or its
\* maximum is <= 1; otherwise the same keys with every value divided by the
\* maximum, so that the maximum becomes exactly 1 and the relative order of the
\* values is preserved; normalizing the result again changes nothing.
C8_Normalize ==
    /\ Called({"normalized"}) =>
          IF arg = <<>> \/ ~RGt(MaxValue(arg), One)
          THEN frequencies = arg
          ELSE /\ Len(frequencies) = Len(arg)
               /\ \A i \in 1..Len(arg) :
                     /\ frequencies[i].k = arg[i].k
                     /\ frequencies[i].v[1] * arg[i].v[2] * MaxValue(arg)[1]
                           = arg[i].v[1] * MaxValue(arg)[2] * frequencies[i].v[2]
               /\ MaxValue(frequencies) = <<1, 1>>
               /\ \A i, j \in 1..Len(arg) :
                     RLt(arg[i].v, arg[j].v)
                        <=> RLt(frequencies[i].v, frequencies[j].v)
    /\ Called({"renormalized"}) => frequencies = arg

\* A map of several different values with maximum above 1 was rescaled.
C8_Witness ==
    /\ Called({"normalized"})
    /\ Len(arg) >= 2
    /\ RGt(MaxValue(arg), One)
    /\ \E i \in 1..Len(arg) : RLt(frequencies[i].v, One)
    /\ frequencies # arg

-----------------------------------------------------------------------------
(* The round trip: a frequency list parsed, normalized, then filtered        *)

\* The weight strings of the lines of a frequency list
WeightStrs ==
    {<<"1">>, <<"2">>, <<"4">>, <<".", "5">>, <<"1", "/", "4">>,
     <<"5", "0", "%">>, <<"i", "n", "f">>}

\* n lines, the i-th line KeyOf[i], a space and a weight string
RECURSIVE joined(_)
joined(ls) ==
    IF ls = <<>> THEN <<>>
    ELSE IF Len(ls) = 1 THEN ls[1]
    ELSE ls[1] \o <<"\n">> \o joined(Tail(ls))

FreqLists ==
    UNION {{joined([i \in 1..n |-> <<KeyOf[i], " ">> \o ws[i]]) :
               ws \in [1..n -> WeightStrs]} : n \in 0..MaxEntries}

InitRoundTrip ==
    /\ pc = "call"
    /\ text \in FreqLists
    /\ lines = <<>>
    /\ line = <<>>
    /\ outcome = NoOutcome
    /\ frequencies = <<>>
    /\ raised = "none"
    /\ min_frequency \in MinFreqs
    /\ scale \in Scales
    /\ max_words \in 0..MaxEntries
    /\ arg = <<>>
    /\ filtered = <<>>
    /\ TextIdle
    /\ FlowIdle

NextRoundTrip == ParseStart \/ ParseLine \/ ParseReturn \/ Normalize \/ Apply

SpecRoundTrip == InitRoundTrip /\ [][NextRoundTrip]_vars

\* C10: for every input text, with n the map parse_frequency_input returns
\* passed through normalize_frequencies, apply_filters(n, min_freq=0, scale=1,
\* max_words=len(n)) returns a map with the same keys and the same values as n.
C10_RoundTripNoOp ==
    (Called({"pipeline"}) /\ min_frequency = Zero /\ scale = One
        /\ max_words = Len(arg)) =>
        /\ Len(frequencies) = Len(arg)
        /\ \A i \in 1..Len(arg) :
              /\ HasKey(frequencies, arg[i].k)
              /\ Get(frequencies, arg[i].k) = arg[i].v

-----------------------------------------------------------------------------
(* process_raw_text                                                         *)

MaxRawLen == 5
MaxPieces == 3

\* Characters of the raw text.  "yo" and "YO" stand for the Cyrillic letter
\* io, small and capital; "e'" stands for a Latin e with an acute accent, a
\* letter that the character class of the pattern does not list.
RawAlphabet == {"a", "A", "yo", "e'", "1", "_", " ", "."}

\* str.lower(), one character
Lower(c) ==
    CASE c = "A" -> "a" [] c = "B" -> "b" [] c = "YO" -> "yo" [] OTHER -> c

\* text.lower()
lower(s) == [i \in 1..Len(s) |-> Lower(s[i])]

\* [a-zA-Z<Cyrillic a-ya><Cyrillic A-YA><io><IO>]
ClassLetter == {"a", "b", "A", "B", "yo", "YO"}

\* \w: letters of any alphabet, digits and the underscore
WordChar == ClassLetter \cup {"e'", "_"} \cup Digit

is_word(s, i) == i >= 1 /\ i <= Len(s) /\ s[i] \in WordChar

is_letter(s, i) == i >= 1 /\ i <= Len(s) /\ s[i] \in ClassLetter

\* A variant in which only the letters of the class count as word characters
boundary_letters(s, i) == is_letter(s, i - 1) # is_letter(s, i)

\* \b holds before position i (i = Len(s) + 1: at the end): exactly one of
\* the characters on its two sides is a word character
boundary(s, i) == is_word(s, i - 1) # is_word(s, i)

\* The length of the match of \b[...]{3,}\b that starts at p, 0 if there is
\* none: the quantifier is greedy and gives characters back until \b holds.
match_len(s, p) ==
    IF ~boundary(s, p) THEN 0
    ELSE LET ns == {n \in 3..(Len(s) - p + 1) :
                        /\ \A i \in p..(p + n - 1) : s[i] \in ClassLetter
                        /\ boundary(s, p + n)}
         IN  IF ns = {} THEN 0 ELSE SetMax(ns)

\* re.findall(pattern, s), scanning from position p: the matches do not
\* overlap, the scan resumes where a match ended.
RECURSIVE findall(_, _)
findall(s, p) ==
    IF p > Len(s) THEN <<>>
    ELSE IF match_len(s, p) = 0 THEN findall(s, p + 1)
    ELSE <<SubSeq(s, p, p + match_len(s, p) - 1)>>
            \o findall(s, p + match_len(s, p))

\* [word for word in words if word not in stop_words]
not_stopped(ws, sw) == SelectSeq(ws, LAMBDA w : w \notin sw)

\* Counter(words): the distinct words in order of first appearance, each
\* with the number of its occurrences
RECURSIVE Counter(_)
Counter(ws) ==
    IF ws = <<>> THEN <<>>
    ELSE LET c == Counter(SubSeq(ws, 1, Len(ws) - 1))
             w == ws[Len(ws)]
         IN  IF \E i \in 1..Len(c) : c[i].k = w
             THEN [i \in 1..Len(c) |->
                     IF c[i].k = w THEN [k |-> w, v |-> c[i].v + 1] ELSE c[i]]
             ELSE Append(c, [k |-> w, v |-> 1])

\* A variant that takes the count of the first word for the largest
max_count_first(c) == c[1].v

\* max(word_counts.values())
max_count(c) == SetMax({c[i].v : i \in 1..Len(c)})

\* {word: count / max_count for word, count in word_counts.items()}
count_over_max(c) ==
    IF c = <<>> THEN <<>>
    ELSE [i \in 1..Len(c) |-> [k |-> c[i].k, v |-> Rat(c[i].v, max_count(c))]]

process_raw_text(t, sw) ==
    count_over_max(Counter(not_stopped(findall(lower(t), 1), sw)))

\* Texts made of a few words put one after the other
Pieces == {<<"a", "a", "a">>, <<"A", "a", "a">>, <<"yo", "YO", "yo">>,
           <<"a", "a", "a", "1">>, <<"a", "a">>}
Separators == {<<" ">>, <<".">>, <<" ", " ">>}

RECURSIVE Prose(_)
Prose(n) ==
    IF n = 1 THEN Pieces
    ELSE Prose(n - 1) \cup
         {t \o sp \o w : t \in Prose(n - 1), sp \in Separators, w \in Pieces}

RawTexts == SeqsUpTo(RawAlphabet, MaxRawLen) \cup Prose(MaxPieces)

StopWordSets == {{}, {<<"a", "a", "a">>}}

InitText ==
    /\ pc = "call"
    /\ text \in RawTexts
    /\ stop_words \in StopWordSets
    /\ words = <<>>
    /\ frequencies = <<>>
    /\ lines = <<>> /\ line = <<>> /\ outcome = NoOutcome /\ raised = "none"
    /\ FilterIdle
    /\ FlowIdle

\* The whole of process_raw_text(text, stop_words)
ProcessRawText ==
    /\ pc = "call"
    /\ words' = findall(lower(text), 1)
    /\ frequencies' = process_raw_text(text, stop_words)
    /\ pc' = "done"
    /\ UNCHANGED <<parseVars, filterVars, stop_words, flowVars>>

NextText == ProcessRawText

SpecText == InitText /\ [][NextText]_vars

-----------------------------------------------------------------------------
(* Properties of process_raw_text (SpecText)                                *)

\* The runs <<i, j>> of s that are maximal with all their characters in S
MaximalRuns(s, S) ==
    {r \in (1..Len(s)) \X (1..Len(s)) :
        /\ r[1] <= r[2]
        /\ \A i \in r[1]..r[2] : s[i] \in S
        /\ r[1] > 1 => s[r[1] - 1] \notin S
        /\ r[2] < Len(s) => s[r[2] + 1] \notin S}

\* The runs of R that are made of at least three pattern letters
LetterRuns(s, R) ==
    {r \in R : /\ r[2] - r[1] + 1 >= 3
               /\ \A i \in r[1]..r[2] : s[i] \in ClassLetter}

\* ws lists the runs of R in s, in the order in which they appear
ListsRuns(ws, s, R) ==
    /\ Len(ws) = Cardinality(R)
    /\ \A r \in R :
          ws[Cardinality({q \in R : q[1] < r[1]}) + 1] = SubSeq(s, r[1], r[2])

\* C3 (as the pattern behaves): the tokens are, in the order of appearance,
\* the maximal runs of word characters (letters, digits, underscore) of the
\* lowercased text that consist of at least three ASCII or Cyrillic letters
\* and of nothing else; a letter run that touches a digit, an underscore or
\* a letter of another alphabet is not a token.
C3_WholeWordRuns ==
    pc = "done" =>
        ListsRuns(words, lower(text),
                  LetterRuns(lower(text), MaximalRuns(lower(text), WordChar)))

\* C3: after lowercasing, the tokens are, in the order of appearance, the
\* maximal runs of letters (ASCII or Cyrillic) of length >= 3, every other
\* character being a separator: a run of three letters next to a digit
\* ('abc123') is a token.
C3_EveryLetterRun ==
    pc = "done" =>
        ListsRuns(words, lower(text),
                  LetterRuns(lower(text), MaximalRuns(lower(text), ClassLetter)))

\* A text with a token and with a run of three letters that touches a digit
\* or an underscore was tokenized.
C3_Witness ==
    /\ pc = "done"
    /\ words # <<>>
    /\ \E r \in LetterRuns(lower(text), MaximalRuns(lower(text), ClassLetter)) :
          \/ is_word(lower(text), r[1] - 1)
          \/ is_word(lower(text), r[2] + 1)

\* The number of times w occurs among the extracted tokens
Occurrences(w) == Cardinality({i \in 1..Len(words) : words[i] = w})

\* The extracted tokens that are not stop words
KeptTokens == {words[i] : i \in {j \in 1..Len(words) : words[j] \notin stop_words}}

\* The largest number of occurrences of a kept token
LargestCount == SetMax({Occurrences(w) : w \in KeptTokens})

\* C11: the keys of the result of process_raw_text are exactly the extracted
\* tokens that are not in stop_words, each mapped to the number of its
\* occurrences divided by the largest such number: every value lies in
\* (0, 1], a most frequent token maps to exactly 1, and the result is empty
\* when no token survives.
C11_CountOverMax ==
    pc = "done" =>
        /\ {frequencies[i].k : i \in 1..Len(frequencies)} = KeptTokens
        /\ Len(frequencies) = Cardinality(KeptTokens)
        /\ KeptTokens = {} => frequencies = <<>>
        /\ \A i \in 1..Len(frequencies) :
              /\ frequencies[i].v[1] * LargestCount
                    = Occurrences(frequencies[i].k) * frequencies[i].v[2]
              /\ RGt(frequencies[i].v, Zero)
              /\ RGe(One, frequencies[i].v)
              /\ Occurrences(frequencies[i].k) = LargestCount
                    => frequencies[i].v = One

\* A text was counted in which one token occurs more often than another,
\* the first token of the text not being the most frequent one.
C11_Witness ==
    /\ pc = "done"
    /\ Len(frequencies) >= 2
    /\ RLt(frequencies[1].v, One)
    /\ \E i \in 1..Len(frequencies) : frequencies[i].v = One

-----------------------------------------------------------------------------
(* parse_frequency_input as a function: the loop run to its end             *)

RECURSIVE parse_lines(_, _)

\* The rest of the loop after an iteration that did r
parse_rest(r, rest, d) ==
    IF r.kind = "raise" THEN [exc |-> r.exc, d |-> d]
    ELSE parse_lines(rest, IF r.kind = "stored"
                           THEN DictSet(d, r.word, r.freq) ELSE d)

\* The loop over the lines ls, started with the dict d
parse_lines(ls, d) ==
    IF ls = <<>> THEN [exc |-> "none", d |-> d]
    ELSE parse_rest(iteration(Head(ls)), Tail(ls), d)

parse_frequency_input(t) == parse_lines(split(strip(t), "\n"), <<>>)

-----------------------------------------------------------------------------
(* The script: Streamlit runs the module from top to bottom on every widget *)
(* interaction; st.stop() ends the run.  The widgets of the sidebar that    *)
(* only feed the renderer (sizes, colours, dpi) are not modelled.           *)

\* What the user may have typed into the two text areas
FlowTexts ==
    {<<>>, <<" ">>, <<"a", "a">>, <<"a", "a", "a">>,
     <<"a", "a", "a", "1">>,
     <<"a", "a", "a", " ", "A", "a", "a", " ", "yo", "YO", "yo">>}
FlowFreqs == {<<>>, <<"a", " ", "1">>}

\* Values of the sidebar widgets
FlowMinFreqs == {Zero, Rat(3, 5), Rat(2, 1)}
FlowScales == {One, Rat(2, 1)}
FlowMaxWords == {10}

\* A variant that takes every map for non-empty
falsy_never(d) == FALSE

\* not frequencies
falsy(d) == d = <<>>

\* len(re.findall(r'\b\w+\b', s)): the number of runs of word characters
count_words(s) ==
    Cardinality({p \in 1..Len(s) : is_word(s, p) /\ ~is_word(s, p - 1)})

\* The settings dict, as far as the settings are modelled
settings == [max_words |-> max_words, scale |-> scale,
             min_frequency |-> min_frequency]

unusedVars == <<text, lines, line, outcome, words>>
inputVars == <<widgetVars, min_frequency, scale, max_words, stop_words>>

InitFlow ==
    /\ pc = "tab1"
    /\ freq_input_data \in FlowFreqs
    /\ text_input_data \in FlowTexts
    /\ generate_btn = FALSE
    /\ min_frequency \in FlowMinFreqs
    /\ scale \in FlowScales
    /\ max_words \in FlowMaxWords
    /\ stop_words \in StopWordSets
    /\ input_mode = "unset" /\ total_words = 0 /\ img_buffer = "unset"
    /\ rendered = {} /\ error = FALSE /\ session_state = NoSession
    /\ frequencies = <<>> /\ arg = <<>> /\ filtered = <<>>
    /\ ParseIdle
    /\ words = <<>>

\* The user changes widgets or presses the button: the script starts again,
\* st.session_state is what the last run left.
Rerun ==
    /\ pc \in {"end", "stopped", "raised"}
    /\ freq_input_data' \in FlowFreqs
    /\ text_input_data' \in FlowTexts
    /\ generate_btn' \in BOOLEAN
    /\ min_frequency' \in FlowMinFreqs
    /\ scale' \in FlowScales
    /\ max_words' \in FlowMaxWords
    /\ stop_words' \in StopWordSets
    /\ input_mode' = "unset" /\ total_words' = 0 /\ img_buffer' = "unset"
    /\ rendered' = {} /\ error' = FALSE
    /\ frequencies' = <<>> /\ arg' = <<>> /\ filtered' = <<>>
    /\ raised' = "none"
    /\ pc' = "tab1"
    /\ UNCHANGED <<text, lines, line, outcome, words, session_state>>

\* with tab1: ... input_mode = "frequency"
Tab1 ==
    /\ pc = "tab1"
    /\ input_mode' = "frequency"
    /\ pc' = "tab2"
    /\ UNCHANGED <<frequencies, parseVars, filterVars, textVars, widgetVars,
                   total_words, img_buffer, rendered, error, session_state>>

\* with tab2: ... input_mode = "text"
Tab2 ==
    /\ pc = "tab2"
    /\ input_mode' = "text"
    /\ pc' = "preview"
    /\ UNCHANGED <<frequencies, parseVars, filterVars, textVars, widgetVars,
                   total_words, img_buffer, rendered, error, session_state>>

\* The preview caption: in frequency mode the frequency text is parsed
Preview ==
    /\ pc = "preview"
    /\ raised' = IF input_mode = "frequency"
                 THEN parse_frequency_input(freq_input_data).exc
                 ELSE raised
    /\ pc' = IF raised' # "none" THEN "raised" ELSE "button"
    /\ UNCHANGED <<frequencies, text, lines, line, outcome, filterVars,
                   textVars, flowVars>>

\* if generate_btn: the entry point chosen by input_mode
Generate ==
    /\ pc = "button"
    /\ generate_btn
    /\ IF input_mode = "frequency"
       THEN IF strip(freq_input_data) = <<>>
            THEN /\ error' = TRUE
                 /\ pc' = "stopped"
                 /\ UNCHANGED <<frequencies, total_words, raised>>
            ELSE /\ raised' = parse_frequency_input(freq_input_data).exc
                 /\ frequencies' = IF raised' = "none"
                                   THEN parse_frequency_input(freq_input_data).d
                                   ELSE frequencies
                 /\ total_words' = Len(frequencies')
                 /\ pc' = IF raised' = "none" THEN "check_entry" ELSE "raised"
                 /\ UNCHANGED error
       ELSE IF input_mode = "text"
       THEN IF strip(text_input_data) = <<>>
            THEN /\ error' = TRUE
                 /\ pc' = "stopped"
                 /\ UNCHANGED <<frequencies, total_words, raised>>
            ELSE /\ frequencies' = process_raw_text(text_input_data, stop_words)
                 /\ total_words' = count_words(lower(text_input_data))
                 /\ pc' = "check_entry"
                 /\ UNCHANGED <<error, raised>>
       ELSE /\ pc' = "check_entry"
            /\ UNCHANGED <<frequencies, total_words, raised, error>>
    /\ UNCHANGED <<unusedVars, inputVars, arg, filtered, input_mode,
                   img_buffer, rendered, session_state>>

\* if not frequencies: st.error(...); st.stop()
CheckEntry ==
    /\ pc = "check_entry"
    /\ error' = falsy(frequencies)
    /\ pc' = IF falsy(frequencies) THEN "stopped" ELSE "pipeline"
    /\ UNCHANGED <<frequencies, parseVars, filterVars, textVars, widgetVars,
                   input_mode, total_words, img_buffer, rendered,
                   session_state>>

\* frequencies = normalize_frequencies(frequencies)
\* frequencies = apply_filters(frequencies, min_frequency, scale, max_words)
Pipeline ==
    /\ pc = "pipeline"
    /\ arg' = normalize_frequencies(frequencies)
    /\ filtered' = filter_min(arg', min_frequency)
    /\ frequencies' = apply_filters(arg', min_frequency, scale, max_words)
    /\ pc' = "check_filtered"
    /\ UNCHANGED <<parseVars, min_frequency, scale, max_words, textVars,
                   flowVars>>

\* if not frequencies: st.error(...); st.stop()
CheckFiltered ==
    /\ pc = "check_filtered"
    /\ error' = falsy(frequencies)
    /\ pc' = IF falsy(frequencies) THEN "stopped" ELSE "render"
    /\ UNCHANGED <<frequencies, parseVars, filterVars, textVars, widgetVars,
                   input_mode, total_words, img_buffer, rendered,
                   session_state>>

\* img_buffer = generate_wordcloud_image(frequencies, settings)
\* high_quality_buffer = generate_high_quality_image(frequencies, ...)
\* Both return None for an empty map.
Render ==
    /\ pc = "render"
    /\ rendered' = rendered \cup {frequencies}
    /\ img_buffer' = IF frequencies = <<>> THEN "None" ELSE "image"
    /\ pc' = "display"
    /\ UNCHANGED <<frequencies, parseVars, filterVars, textVars, widgetVars,
                   input_mode, total_words, error, session_state>>

\* if img_buffer: the image, the downloads in the other formats (rendered
\* from the same map), the statistics, and the result saved in the session
Display ==
    /\ pc = "display"
    /\ session_state' =
          IF img_buffer = "image"
          THEN [saved |-> TRUE, last_frequencies |-> frequencies,
                last_settings |-> settings, total_words |-> total_words,
                input_mode |-> input_mode]
          ELSE session_state
    /\ pc' = "end"
    /\ UNCHANGED <<frequencies, parseVars, filterVars, textVars, widgetVars,
                   input_mode, total_words, img_buffer, rendered, error>>

\* elif 'last_image' in st.session_state: the last result is shown again and
\* its download rendered from last_frequencies; otherwise nothing is shown
ShowLast ==
    /\ pc = "button"
    /\ ~generate_btn
    /\ rendered' = IF session_state.saved
                   THEN rendered \cup {session_state.last_frequencies}
                   ELSE rendered
    /\ pc' = "end"
    /\ UNCHANGED <<frequencies, parseVars, filterVars, textVars, widgetVars,
                   input_mode, total_words, img_buffer, error, session_state>>

NextFlow ==
    \/ Rerun \/ Tab1 \/ Tab2 \/ Preview \/ Generate \/ CheckEntry
    \/ Pipeline \/ CheckFiltered \/ Render \/ Display \/ ShowLast

SpecFlow == InitFlow /\ [][NextFlow]_vars

-----------------------------------------------------------------------------
(* Properties of the generate flow (SpecFlow)                               *)

\* C9: the renderer is only ever called with a non-empty weight map: when
\* the map from the entry point or the map after normalize_frequencies and
\* apply_filters is empty, the run shows an error and stops with nothing
\* rendered, and a run that shows an error does not change the saved
\* session state.
C9_RenderOnlyNonEmpty ==
    /\ [](\A m \in rendered : m # <<>>)
    /\ [](error => pc = "stopped" /\ rendered = {})
    /\ [][/\ (pc \in {"check_entry", "check_filtered"} /\ frequencies = <<>>)
              => (error' /\ pc' = "stopped")
          /\ session_state' # session_state
              => (~error /\ ~error' /\ frequencies # <<>>
                    /\ frequencies \in rendered)]_vars

\* A run was stopped because filtering left nothing, after an earlier run
\* had saved a result.
C9_Witness ==
    /\ pc = "stopped"
    /\ error
    /\ arg # <<>>
    /\ frequencies = <<>>
    /\ session_state.saved

-----------------------------------------------------------------------------
(* The script in use: a run of the script that has started goes on to its   *)
(* end, and the user keeps coming back to press the button.                 *)

\* The texts of at most one word
ShortTexts == {t \in FlowTexts : Len(t) <= 4}

\* The sidebar as the script first shows it: no minimum frequency, scale 1
InitUse ==
    /\ InitFlow
    /\ text_input_data \in ShortTexts
    /\ min_frequency = Zero
    /\ scale = One
    /\ stop_words = {}

\* The user edits the text areas or presses the button, the sidebar left alone
Interact ==
    /\ Rerun
    /\ text_input_data' \in ShortTexts
    /\ min_frequency' = min_frequency
    /\ scale' = scale
    /\ stop_words' = stop_words

\* The user presses the button
Press == Interact /\ generate_btn'

NextUse ==
    \/ Interact \/ Tab1 \/ Tab2 \/ Preview \/ Generate \/ CheckEntry
    \/ Pipeline \/ CheckFiltered \/ Render \/ Display \/ ShowLast

SpecFlowFair ==
    InitUse /\ [][NextUse]_vars /\ WF_vars(NextUse) /\ SF_vars(Press)

\* The script is at "if generate_btn:" with the button pressed
Handling == pc = "button" /\ generate_btn

\* Whenever the script reaches the button, input_mode is "text": tab2's
\* assignment always runs after tab1's.
AlwaysTextMode == pc = "button" => input_mode = "text"

\* C13: both entry points are reachable in the generate flow: the button
\* comes to be handled with input_mode equal to "frequency", the map then
\* being produced by parse_frequency_input, and it comes to be handled with
\* input_mode equal to "text", the map being produced by process_raw_text.
C13_BothEntryPoints ==
    /\ <>(Handling /\ input_mode = "frequency")
    /\ <>(Handling /\ input_mode = "text")

====
